---- MODULE Spec2Model ----
(***************************************************************************)
(* Na::DeviceImage (src/src/Natrium/Graphics/DeviceImage.cpp): a device    *)
(* image handle with its backing memory, the layout transition table, the  *)
(* three staged-upload shapes and the move operations.                     *)
(*                                                                         *)
(* The logical device is modelled by the sets of live native handles and   *)
(* by per-handle release counters; a command recording is modelled by the  *)
(* sequence of events a call produced (begin, recorded commands, end).     *)
(***************************************************************************)
EXTENDS Integers, Sequences, FiniteSets

\* ------------------------------------------------------------------ bounds
NumInst == 2        \* DeviceImage storage slots
MaxHandles == 2     \* native images (and memory blocks) the device hands out
MaxLayers == 2      \* largest layer_count / starting_layer argument
MaxBuffers == 2     \* largest buffer_count argument

Inst == 1..NumInst
Handles == 1..MaxHandles

\* ------------------------------------------------- unsigned machine words
\* TLC integers are 32-bit signed, so a u32/u64 value is kept as its
\* little-endian base-256 digits (4 digits = u32, 8 digits = u64).
RECURSIVE NatDigits(_, _)
NatDigits(n, len) ==
    IF len = 0 THEN <<>> ELSE <<n % 256>> \o NatDigits(n \div 256, len - 1)

RECURSIVE ColSum(_, _, _, _)
\* sum of a[i] * b[k+1-i] for i <= upto: the k-th column of the long product
ColSum(a, b, k, upto) ==
    IF upto = 0 THEN 0
    ELSE ColSum(a, b, k, upto - 1)
         + (IF upto <= Len(a) /\ k + 1 - upto >= 1 /\ k + 1 - upto <= Len(b)
            THEN a[upto] * b[k + 1 - upto] ELSE 0)

RECURSIVE MulFrom(_, _, _, _, _)
MulFrom(a, b, k, carry, len) ==
    IF k > len THEN <<>>
    ELSE LET t == ColSum(a, b, k, k) + carry
         IN  <<t % 256>> \o MulFrom(a, b, k + 1, t \div 256, len)

\* a * b modulo 256^len
MulDigits(a, b, len) == MulFrom(a, b, 1, 0, len)

\* u32 * u32 in u32 arithmetic (wraps modulo 2^32)
U32Mul(a, b) == MulDigits(a, b, 4)

RECURSIVE SubFrom(_, _, _, _, _)
SubFrom(a, b, k, borrow, len) ==
    IF k > len THEN <<>>
    ELSE LET t == a[k] - b[k] - borrow
         IN  <<t % 256>> \o SubFrom(a, b, k + 1, IF t < 0 THEN 1 ELSE 0, len)

\* u32 - u32 in u32 arithmetic (wraps modulo 2^32)
U32Sub(a, b) == SubFrom(a, b, 1, 0, 4)

\* the value of a u32 below 2^31
U32Nat(d) == d[1] + 256 * d[2] + 65536 * d[3] + 16777216 * d[4]

\* u64(x) of a u32 x: zero extension
U64Of(x) == x \o <<0, 0, 0, 0>>

U32(n) == NatDigits(n, 4)
Zero64 == NatDigits(0, 8)

\* --------------------------------------------------------------- values
NullHandle == 0
\* a handle value that is none of the handles the caller supplied
GarbageHandle == MaxBuffers + 1

Layouts == {"eUndefined", "eGeneral", "eTransferDstOptimal", "eShaderReadOnlyOptimal"}
Aspects == {{"eDepth"}}
Formats == {"eR8G8B8A8Srgb"}

Extent3D(w, h, d) == [width |-> w, height |-> h, depth |-> d]
Extents == {Extent3D(2, 1, 1), Extent3D(32768, 32768, 1), Extent3D(2, 2, 2), Extent3D(2, 2, 0)}

\* memset(this, 0, sizeof(DeviceImage)): every field zero
ZeroImage ==
    [img |-> NullHandle, memory |-> NullHandle,
     extent |-> Extent3D(0, 0, 0), format |-> "eUndefined",
     subresource_range |-> [aspectMask |-> {}, baseMipLevel |-> 0, levelCount |-> 0,
                            baseArrayLayer |-> 0, layerCount |-> 0]]

NoCall == [op |-> "none", result |-> "ok", events |-> <<>>]

VARIABLES
    alive,          \* storage slots that hold a DeviceImage object
    obj,            \* the fields of each object
    images,         \* native images created and not destroyed
    memories,       \* device memory blocks allocated and not freed
    nImages,        \* native images created so far (the next handle is nImages + 1)
    nMemories,      \* memory blocks allocated so far
    destroyCount,   \* per image handle: destroyImage calls
    freeCount,      \* per memory handle: freeMemory calls
    open,           \* command recordings begun and not ended
    halted,         \* the process died in a call
    lastCall        \* the last call: operation, outcome, recording events

vars == <<alive, obj, images, memories, nImages, nMemories, destroyCount, freeCount,
          open, halted, lastCall>>

device == <<images, memories, nImages, nMemories, destroyCount, freeCount>>

Init ==
    /\ alive = {}
    /\ obj = [i \in Inst |-> ZeroImage]
    /\ images = {}
    /\ memories = {}
    /\ nImages = 0
    /\ nMemories = 0
    /\ destroyCount = [h \in Handles |-> 0]
    /\ freeCount = [h \in Handles |-> 0]
    /\ open = 0
    /\ halted = FALSE
    /\ lastCall = NoCall

Call(op, result, events) == [op |-> op, result |-> result, events |-> events]

\* ------------------------------------------------- DeviceImage::DeviceImage
\* what the device answers: all calls succeed, or the named call fails
DeviceOutcomes == {"ok", "create_failed", "no_memory_type", "allocate_failed", "bind_failed"}

\* mutant: the depth is checked before the layer count
ConstructCheckDepthFirst(extent, layer_count) ==
    IF extent.depth = 0 THEN "runtime_error"
    ELSE IF ~(layer_count > 0) THEN "assert"
    ELSE IF extent.depth = 1 THEN "e2D"
    ELSE "e3D"

\* the checks before createImage: NA_ASSERT(layer_count > 0), a fatal check when
\* it fails, then the depth, which selects the image type or throws
ConstructCheck(extent, layer_count) ==
    IF ~(layer_count > 0) THEN "assert"
    ELSE IF extent.depth = 1 THEN "e2D"
    ELSE IF extent.depth > 1 THEN "e3D"
    ELSE "runtime_error"

\* the memory type selector: an index, or a failure that propagates
FindMemoryType(dev) == IF dev = "no_memory_type" THEN "error" ELSE "ok"

\* how far the constructor body gets, given what the device answers:
\* which of createImage / allocateMemory ran, and how the call ends
ConstructRun(extent, layer_count, dev) ==
    LET chk == ConstructCheck(extent, layer_count) IN
    IF chk \in {"assert", "runtime_error"}
    THEN [created |-> FALSE, allocated |-> FALSE, result |-> chk]
    ELSE IF dev = "create_failed"
    THEN [created |-> FALSE, allocated |-> FALSE, result |-> "device_error"]
    ELSE IF FindMemoryType(dev) = "error"
    THEN [created |-> TRUE, allocated |-> FALSE, result |-> "device_error"]
    ELSE IF dev = "allocate_failed"
    THEN [created |-> TRUE, allocated |-> FALSE, result |-> "device_error"]
    ELSE IF dev = "bind_failed"
    THEN [created |-> TRUE, allocated |-> TRUE, result |-> "device_error"]
    ELSE [created |-> TRUE, allocated |-> TRUE, result |-> "ok"]

Construct(i, extent, layer_count, aspect_mask, format, dev) ==
    LET run == ConstructRun(extent, layer_count, dev)
        h == nImages + 1
        m == nMemories + 1
    IN
    /\ ~halted
    /\ i \notin alive
    /\ nImages < MaxHandles
    /\ nMemories < MaxHandles
    /\ images' = IF run.created THEN images \cup {h} ELSE images
    /\ nImages' = IF run.created THEN h ELSE nImages
    /\ memories' = IF run.allocated THEN memories \cup {m} ELSE memories
    /\ nMemories' = IF run.allocated THEN m ELSE nMemories
    /\ alive' = IF run.result = "ok" THEN alive \cup {i} ELSE alive
    /\ obj' = IF run.result = "ok"
              THEN [obj EXCEPT ![i] =
                      [img |-> h, memory |-> m, extent |-> extent, format |-> format,
                       subresource_range |->
                           [aspectMask |-> aspect_mask, baseMipLevel |-> 0, levelCount |-> 1,
                            baseArrayLayer |-> 0, layerCount |-> layer_count]]]
              ELSE obj
    /\ lastCall' = Call("construct", run.result, <<>>)
    /\ UNCHANGED <<destroyCount, freeCount, open, halted>>

\* a default-initialised instance: null handles, nothing allocated
DefaultConstruct(i) ==
    /\ ~halted
    /\ i \notin alive
    /\ alive' = alive \cup {i}
    /\ obj' = [obj EXCEPT ![i] = ZeroImage]
    /\ lastCall' = Call("default_construct", "ok", <<>>)
    /\ UNCHANGED <<device, open, halted>>

\* ----------------------------------------------------- DeviceImage::destroy
ImagesAfterDestroy(o, imgs) == IF o.img # NullHandle THEN imgs \ {o.img} ELSE imgs

DestroyCountAfter(o, dc) ==
    IF o.img # NullHandle THEN [dc EXCEPT ![o.img] = @ + 1] ELSE dc

MemoriesAfterDestroy(o, mems) == IF o.memory # NullHandle THEN mems \ {o.memory} ELSE mems

FreeCountAfter(o, fc) ==
    IF o.memory # NullHandle THEN [fc EXCEPT ![o.memory] = @ + 1] ELSE fc

\* mutant: the fields are not reset
AfterDestroyKeep(o) == o

\* memset(this, 0, sizeof(DeviceImage))
AfterDestroy(o) == ZeroImage

Destroy(i) ==
    /\ ~halted
    /\ i \in alive
    /\ images' = ImagesAfterDestroy(obj[i], images)
    /\ destroyCount' = DestroyCountAfter(obj[i], destroyCount)
    /\ memories' = MemoriesAfterDestroy(obj[i], memories)
    /\ freeCount' = FreeCountAfter(obj[i], freeCount)
    /\ obj' = [obj EXCEPT ![i] = AfterDestroy(obj[i])]
    /\ lastCall' = Call("destroy", "ok", <<>>)
    /\ UNCHANGED <<alive, nImages, nMemories, open, halted>>

\* ------------------------------------------- move construction / assignment
\* mutant: only the image handle is exchanged, the memory handle is copied
MovedFromImgOnly(o) == [o EXCEPT !.img = NullHandle]

\* mutant: the handles are copied, the source keeps them
MovedFromKeep(o) == o

\* the source after std::exchange(other.img, nullptr), std::exchange(other.memory, nullptr)
MovedFrom(o) == [o EXCEPT !.img = NullHandle, !.memory = NullHandle]

MoveConstruct(dst, src) ==
    /\ ~halted
    /\ dst \notin alive
    /\ src \in alive
    /\ alive' = alive \cup {dst}
    /\ obj' = [obj EXCEPT
                 ![dst] = [img |-> obj[src].img, memory |-> obj[src].memory,
                           extent |-> obj[src].extent, format |-> obj[src].format,
                           subresource_range |-> obj[src].subresource_range],
                 ![src] = MovedFrom(obj[src])]
    /\ lastCall' = Call("move_construct", "ok", <<>>)
    /\ UNCHANGED <<device, open, halted>>

\* mutant: the handles are assigned without std::exchange, the source keeps them
AssignedObjectsCopy(objs, dst, src) ==
    LET s0 == [objs EXCEPT ![dst] = AfterDestroy(objs[dst])]
    IN  [s0 EXCEPT ![dst] = s0[src]]

\* the objects after the body of operator=, statement by statement; src may be dst
AssignedObjects(objs, dst, src) ==
    LET s0 == [objs EXCEPT ![dst] = AfterDestroy(objs[dst])]
        s1 == [s0 EXCEPT ![src].img = NullHandle, ![dst].img = s0[src].img]
        s2 == [s1 EXCEPT ![src].memory = NullHandle, ![dst].memory = s1[src].memory]
        s3 == [s2 EXCEPT ![dst].extent = s2[src].extent]
        s4 == [s3 EXCEPT ![dst].format = s3[src].format]
    IN  [s4 EXCEPT ![dst].subresource_range = s4[src].subresource_range]

MoveAssign(dst, src) ==
    /\ ~halted
    /\ dst \in alive
    /\ src \in alive
    /\ images' = ImagesAfterDestroy(obj[dst], images)
    /\ destroyCount' = DestroyCountAfter(obj[dst], destroyCount)
    /\ memories' = MemoriesAfterDestroy(obj[dst], memories)
    /\ freeCount' = FreeCountAfter(obj[dst], freeCount)
    /\ obj' = AssignedObjects(obj, dst, src)
    /\ lastCall' = Call("move_assign", "ok", <<>>)
    /\ UNCHANGED <<alive, nImages, nMemories, open, halted>>

\* ------------------------------------------------------ command recordings
BeginEvt == [e |-> "begin"]     \* VkContext::BeginSingleTimeCommands
EndEvt == [e |-> "end"]         \* VkContext::EndSingleTimeCommands: submit and wait

CountEvt(events, kind) == Cardinality({j \in 1..Len(events) : events[j].e = kind})

\* recordings left open by a call that produced these events
OpenAfter(n, events) == n + CountEvt(events, "begin") - CountEvt(events, "end")

\* -------------------------------------------- DeviceImage::transition_layout
\* mutant: the second pair is tested with || instead of &&
TransitionTableOr(old_layout, new_layout) ==
    IF old_layout = "eUndefined" /\ new_layout = "eTransferDstOptimal"
    THEN [ok |-> TRUE, srcAccessMask |-> {}, dstAccessMask |-> {"eTransferWrite"},
          execute_stage |-> "eTopOfPipe", wait_stage |-> "eTransfer"]
    ELSE IF old_layout = "eTransferDstOptimal" \/ new_layout = "eShaderReadOnlyOptimal"
    THEN [ok |-> TRUE, srcAccessMask |-> {"eTransferWrite"}, dstAccessMask |-> {"eShaderRead"},
          execute_stage |-> "eTransfer", wait_stage |-> "eFragmentShader"]
    ELSE [ok |-> FALSE, srcAccessMask |-> {}, dstAccessMask |-> {},
          execute_stage |-> "none", wait_stage |-> "none"]

\* the two supported (old, new) pairs and their access masks and stages
TransitionTable(old_layout, new_layout) ==
    IF old_layout = "eUndefined" /\ new_layout = "eTransferDstOptimal"
    THEN [ok |-> TRUE, srcAccessMask |-> {}, dstAccessMask |-> {"eTransferWrite"},
          execute_stage |-> "eTopOfPipe", wait_stage |-> "eTransfer"]
    ELSE IF old_layout = "eTransferDstOptimal" /\ new_layout = "eShaderReadOnlyOptimal"
    THEN [ok |-> TRUE, srcAccessMask |-> {"eTransferWrite"}, dstAccessMask |-> {"eShaderRead"},
          execute_stage |-> "eTransfer", wait_stage |-> "eFragmentShader"]
    ELSE [ok |-> FALSE, srcAccessMask |-> {}, dstAccessMask |-> {},
          execute_stage |-> "none", wait_stage |-> "none"]

\* mutant: the recording is begun before the pair is looked up
TransitionEventsBeginFirst(o, old_layout, new_layout) ==
    LET t == TransitionTable(old_layout, new_layout) IN
    IF ~t.ok THEN <<BeginEvt>>
    ELSE << BeginEvt,
            [e |-> "pipelineBarrier",
             srcStage |-> t.execute_stage, dstStage |-> t.wait_stage,
             barrier |-> [oldLayout |-> old_layout, newLayout |-> new_layout,
                          image |-> o.img, subresourceRange |-> o.subresource_range,
                          srcAccessMask |-> t.srcAccessMask,
                          dstAccessMask |-> t.dstAccessMask]],
            EndEvt >>

\* what the call records: nothing when it throws, else begin, one barrier, end
TransitionEvents(o, old_layout, new_layout) ==
    LET t == TransitionTable(old_layout, new_layout) IN
    IF ~t.ok THEN <<>>
    ELSE << BeginEvt,
            [e |-> "pipelineBarrier",
             srcStage |-> t.execute_stage, dstStage |-> t.wait_stage,
             barrier |-> [oldLayout |-> old_layout, newLayout |-> new_layout,
                          image |-> o.img, subresourceRange |-> o.subresource_range,
                          srcAccessMask |-> t.srcAccessMask,
                          dstAccessMask |-> t.dstAccessMask]],
            EndEvt >>

TransitionLayout(i, old_layout, new_layout) ==
    LET ev == TransitionEvents(obj[i], old_layout, new_layout) IN
    /\ ~halted
    /\ i \in alive
    /\ open' = OpenAfter(open, ev)
    /\ lastCall' = Call("transition_layout",
                        IF TransitionTable(old_layout, new_layout).ok
                        THEN "ok" ELSE "runtime_error",
                        ev)
    /\ UNCHANGED <<alive, obj, device, halted>>

\* --------------------------------------------- DeviceImage::copy_from_buffer
CopyEvt(buffer, o, regions) ==
    [e |-> "copyBufferToImage", buffer |-> buffer, image |-> o.img,
     layout |-> "eTransferDstOptimal", regions |-> regions]

CopyFromBufferEvents(o, buffer, starting_layer, layer_count) ==
    << BeginEvt,
       CopyEvt(buffer, o,
               << [bufferOffset |-> Zero64, bufferRowLength |-> 0, bufferImageHeight |-> 0,
                   imageSubresource |-> [aspectMask |-> o.subresource_range.aspectMask,
                                         mipLevel |-> 0,
                                         baseArrayLayer |-> starting_layer,
                                         layerCount |-> layer_count],
                   imageOffset |-> <<0, 0, 0>>, imageExtent |-> o.extent] >>),
       EndEvt >>

CopyFromBuffer(i, buffer, starting_layer, layer_count) ==
    LET ev == CopyFromBufferEvents(obj[i], buffer, starting_layer, layer_count) IN
    /\ ~halted
    /\ i \in alive
    /\ open' = OpenAfter(open, ev)
    /\ lastCall' = Call("copy_from_buffer", "ok", ev)
    /\ UNCHANGED <<alive, obj, device, halted>>

\* ----------------------------------------- DeviceImage::copy_all_from_buffer
\* u64(i * this->width * this->height * 4): the product is formed in u32
RegionOffset(i, width, height) ==
    U64Of(U32Mul(U32Mul(U32Mul(U32(i), U32(width)), U32(height)), U32(4)))

\* regions[i] for the 0-based i
AllRegion(o, i, starting_layer) ==
    [bufferOffset |-> RegionOffset(i, o.extent.width, o.extent.height),
     bufferRowLength |-> 0, bufferImageHeight |-> 0,
     imageSubresource |-> [aspectMask |-> {"eColor"}, mipLevel |-> 0,
                           baseArrayLayer |-> i + starting_layer, layerCount |-> 1],
     imageOffset |-> <<0, 0, 0>>,
     imageExtent |-> Extent3D(o.extent.width, o.extent.height, 1)]

\* regions.size(): layer_count() - starting_layer, a u32 difference that wraps
\* to 2^32 - (starting_layer - layer_count()) when starting_layer is the larger
RegionCount(o, starting_layer) ==
    U32Sub(U32(o.subresource_range.layerCount), U32(starting_layer))

\* a count of 2^31 regions or more (56 bytes each): the array cannot be allocated
TooMany(count) == count[4] >= 128

\* how the failed allocation of the regions array ends the call: ArrayVector
\* raises the allocation error, or the process dies on the missing storage
AllocOutcomes == {"bad_alloc", "fault"}

\* regions(layer_count() - starting_layer), filled by the loop
AllRegions(o, starting_layer) ==
    [j \in 1..U32Nat(RegionCount(o, starting_layer)) |->
        AllRegion(o, j - 1, starting_layer)]

\* nothing is recorded when the regions array cannot be allocated
CopyAllFromBufferEvents(o, buffer, starting_layer) ==
    IF TooMany(RegionCount(o, starting_layer)) THEN <<>>
    ELSE << BeginEvt, CopyEvt(buffer, o, AllRegions(o, starting_layer)), EndEvt >>

CopyAllFromBuffer(i, buffer, starting_layer, alloc) ==
    LET ev == CopyAllFromBufferEvents(obj[i], buffer, starting_layer)
        failed == TooMany(RegionCount(obj[i], starting_layer))
    IN
    /\ ~halted
    /\ i \in alive
    /\ open' = OpenAfter(open, ev)
    /\ halted' = (failed /\ alloc = "fault")
    /\ lastCall' = Call("copy_all_from_buffer", IF failed THEN alloc ELSE "ok", ev)
    /\ UNCHANGED <<alive, obj, device>>

\* -------------------------------------------- DeviceImage::copy_from_buffers
\* the caller's array: buffer_count distinct handles, buffers[j] = j + 1
Buffers(buffer_count) == [j \in 1..buffer_count |-> j]

\* what a read past the end of the caller's array can yield: a fault, or
\* whatever lies behind the array: null, one of the caller's handles, another value
OutOfBounds ==
    {[fault |-> TRUE, value |-> NullHandle]}
    \cup {[fault |-> FALSE, value |-> v] : v \in {NullHandle, GarbageHandle} \cup 1..MaxBuffers}

\* buffers[i] for the 0-based i; past the end the read is undefined: oob
ReadBuffer(buffers, i, oob) ==
    IF i < Len(buffers) THEN [fault |-> FALSE, value |-> buffers[i + 1]] ELSE oob

RECURSIVE CopyLoop(_, _, _, _, _)
\* the copies recorded for i, i+1, .. until `last`, stopping at a faulting read;
\* reads[i] is what the read of buffers[i] yields if it is out of bounds
CopyLoop(o, buffers, i, last, reads) ==
    IF ~(i < last) THEN <<>>
    ELSE LET b == ReadBuffer(buffers, i, reads[i]) IN
         IF b.fault THEN << [e |-> "fault"] >>
         ELSE << CopyEvt(b.value, o,
                   << [bufferOffset |-> Zero64, bufferRowLength |-> 0,
                       bufferImageHeight |-> 0,
                       imageSubresource |-> [aspectMask |-> o.subresource_range.aspectMask,
                                             mipLevel |-> 0, baseArrayLayer |-> i,
                                             layerCount |-> 1],
                       imageOffset |-> <<0, 0, 0>>, imageExtent |-> o.extent] >>) >>
              \o CopyLoop(o, buffers, i + 1, last, reads)

Faulted(events) == Len(events) > 0 /\ events[Len(events)].e = "fault"

\* begin, the loop from starting_layer to starting_layer + buffer_count, end
\* (the arguments stay far below 2^32, so the u32 sum does not wrap)
CopyFromBuffersEvents(o, buffers, buffer_count, starting_layer, reads) ==
    LET loop == CopyLoop(o, buffers, starting_layer, starting_layer + buffer_count, reads)
    IN  IF Faulted(loop) THEN <<BeginEvt>> \o loop
        ELSE <<BeginEvt>> \o loop \o <<EndEvt>>

CopyFromBuffers(i, buffer_count, starting_layer, reads) ==
    LET ev == CopyFromBuffersEvents(obj[i], Buffers(buffer_count), buffer_count,
                                    starting_layer, reads)
    IN
    /\ ~halted
    /\ i \in alive
    /\ open' = OpenAfter(open, ev)
    /\ halted' = Faulted(ev)
    /\ lastCall' = Call("copy_from_buffers",
                        IF Faulted(ev) THEN "fault" ELSE "ok", ev)
    /\ UNCHANGED <<alive, obj, device>>

\* ------------------------------------------------------------ specification
\* the indices of the loop of copy_from_buffers that lie past the caller's array
PastEnd(buffer_count, starting_layer) ==
    {i \in starting_layer..(starting_layer + buffer_count - 1) : i >= buffer_count}

\* Object lifetimes: every operation on every instance; images of one extent
\* with 1 or MaxLayers layers, the rejected constructions, and the command
\* operations called with one small argument each.  copy_all_from_buffer from
\* layer 0 never asks for a wrapped region count, so its allocation outcome is
\* not consulted here; NextCmd draws it.
Next ==
    \/ \E i \in Inst, x \in {Extent3D(2, 1, 1), Extent3D(2, 2, 0)}, n \in {0, 1, MaxLayers},
          a \in Aspects, f \in Formats, d \in DeviceOutcomes : Construct(i, x, n, a, f, d)
    \/ \E i \in Inst : DefaultConstruct(i)
    \/ \E i \in Inst : Destroy(i)
    \/ \E dst \in Inst : \E src \in Inst \ {dst} : MoveConstruct(dst, src)
    \/ \E dst \in Inst, src \in Inst : MoveAssign(dst, src)
    \/ \E i \in Inst, new \in {"eTransferDstOptimal", "eShaderReadOnlyOptimal"} :
          TransitionLayout(i, "eUndefined", new)
    \/ \E i \in Inst : CopyFromBuffer(i, 1, 0, 1)
    \/ \E i \in Inst : CopyAllFromBuffer(i, 1, 0, "bad_alloc")
    \/ \E i \in Inst, s \in 0..1 :
          \E reads \in [PastEnd(1, s) -> OutOfBounds] : CopyFromBuffers(i, 1, s, reads)

Spec == Init /\ [][Next]_vars

\* Command recording: one instance of every shape, every argument of the
\* transition and copy operations.
NextCmd ==
    \/ \E x \in Extents, n \in 0..MaxLayers, a \in Aspects, f \in Formats :
          Construct(1, x, n, a, f, "ok")
    \/ Destroy(1)
    \/ \E old \in Layouts, new \in Layouts : TransitionLayout(1, old, new)
    \/ \E s \in 0..MaxLayers, n \in 0..MaxLayers : CopyFromBuffer(1, 1, s, n)
    \/ \E s \in 0..MaxLayers, al \in AllocOutcomes : CopyAllFromBuffer(1, 1, s, al)
    \/ \E k \in 0..MaxBuffers, s \in 0..MaxLayers :
          \E reads \in [PastEnd(k, s) -> OutOfBounds] : CopyFromBuffers(1, k, s, reads)

SpecCmd == Init /\ [][NextCmd]_vars

\* ------------------------------------------------------------------ claims
IsCopy(ev) == ev.e = "copyBufferToImage"
Copies(events) == SelectSeq(events, IsCopy)

\* d, a digit string, extended with zero digits to len digits
Pad(d, len) == d \o [j \in 1..(len - Len(d)) |-> 0]

\* the integer i * width * height * 4, without wrapping, as 16 digits
ExactOffset(i, width, height) ==
    MulDigits(MulDigits(MulDigits(U32(i), U32(width), 16), U32(height), 16), U32(4), 16)

\* C1: copy_from_buffers(buffers, k, s) records exactly k copy commands inside
\* one recording; the j-th command targets the single layer s + j and reads
\* buffers[j], the j-th of the k supplied buffers, for every starting layer s.
C1_CopyFromBuffersPerLayer ==
    [][\A k \in 0..MaxBuffers, s \in 0..MaxLayers :
         \A reads \in [PastEnd(k, s) -> OutOfBounds] :
            CopyFromBuffers(1, k, s, reads) =>
               LET cs == Copies(lastCall'.events) IN
               /\ CountEvt(lastCall'.events, "begin") = 1
               /\ Len(cs) = k
               /\ \A j \in 0..(k - 1) :
                     /\ Len(cs[j + 1].regions) = 1
                     /\ cs[j + 1].regions[1].imageSubresource.baseArrayLayer = s + j
                     /\ cs[j + 1].regions[1].imageSubresource.layerCount = 1
                     /\ cs[j + 1].buffer = Buffers(k)[j + 1]]_vars

\* C2: copy_all_from_buffer(buffer, s) on an image of N layers, s <= N, issues
\* one batched copy whose regions cover the layers s..N-1, one layer per
\* region, and the region of layer s + i has buffer offset i * width * height * 4.
C2_CopyAllOffsets ==
    [][\A s \in 0..MaxLayers, al \in AllocOutcomes :
         (CopyAllFromBuffer(1, 1, s, al) /\ s <= obj[1].subresource_range.layerCount) =>
            LET cs == Copies(lastCall'.events)
                n == obj[1].subresource_range.layerCount
            IN
            /\ Len(cs) = 1
            /\ Len(cs[1].regions) = n - s
            /\ \A i \in 0..(n - s - 1) :
                  /\ cs[1].regions[i + 1].imageSubresource.baseArrayLayer = s + i
                  /\ cs[1].regions[i + 1].imageSubresource.layerCount = 1
                  /\ Pad(cs[1].regions[i + 1].bufferOffset, 16)
                        = ExactOffset(i, obj[1].extent.width, obj[1].extent.height)]_vars

\* C3: transition_layout succeeds for (Undefined, TransferDestination) and for
\* (TransferDestination, ShaderReadOnly) and fails with the unsupported
\* transition error for every other pair, whatever transitions came before.
C3_TransitionPairs ==
    [][\A old \in Layouts, new \in Layouts :
         TransitionLayout(1, old, new) =>
            IF <<old, new>> \in {<<"eUndefined", "eTransferDstOptimal">>,
                                 <<"eTransferDstOptimal", "eShaderReadOnlyOptimal">>}
            THEN lastCall'.result = "ok"
            ELSE lastCall'.result = "runtime_error"]_vars

\* the second supported transition succeeded on a constructed image
C3_Witness ==
    /\ lastCall.op = "transition_layout"
    /\ lastCall.result = "ok"
    /\ lastCall.events[2].barrier.newLayout = "eShaderReadOnlyOptimal"
    /\ obj[1].img # NullHandle

NoDoubleRelease == \A h \in Handles : destroyCount[h] <= 1 /\ freeCount[h] <= 1

\* C4: move-constructing B from A leaves B with A's image and memory handles
\* and A with both null; destroy() on an instance with null handles releases
\* nothing, and no native handle is ever released twice.
C4_MoveConstruct ==
    /\ [][lastCall'.op = "move_construct" => \A dst \in Inst, src \in Inst :
            MoveConstruct(dst, src) =>
               /\ obj'[dst].img = obj[src].img
               /\ obj'[dst].memory = obj[src].memory
               /\ obj'[src].img = NullHandle
               /\ obj'[src].memory = NullHandle]_vars
    /\ [][lastCall'.op = "destroy" => \A i \in Inst :
            (Destroy(i) /\ obj[i].img = NullHandle /\ obj[i].memory = NullHandle)
               => UNCHANGED device]_vars
    /\ []NoDoubleRelease

\* B holds the handles, A is moved-from: null handles, its shape kept
C4_Witness ==
    /\ lastCall.op = "move_construct"
    /\ \E a \in alive, b \in alive :
          /\ a # b
          /\ obj[b].img # NullHandle /\ obj[b].memory # NullHandle
          /\ obj[a].img = NullHandle /\ obj[a].memory = NullHandle
          /\ obj[a].extent = obj[b].extent
          /\ obj[b].img \in images

\* C5: destroy() releases the image and the memory the instance holds and
\* leaves it in the zeroed null-handle state; on an instance whose handles are
\* null (destroyed before, default-initialised or moved-from) it releases
\* nothing.
C5_DestroyIdempotent ==
    [][lastCall'.op = "destroy" => \A i \in Inst :
         Destroy(i) =>
            /\ obj'[i] = ZeroImage
            /\ obj[i].img # NullHandle => obj[i].img \notin images'
            /\ obj[i].memory # NullHandle => obj[i].memory \notin memories'
            /\ (obj[i].img = NullHandle /\ obj[i].memory = NullHandle)
                  => UNCHANGED device]_vars

\* one image was constructed and destroyed: nothing is allocated
C5_Witness ==
    /\ lastCall.op = "destroy"
    /\ nImages = 1 /\ nMemories = 1
    /\ images = {} /\ memories = {}
    /\ destroyCount[1] = 1 /\ freeCount[1] = 1
    /\ \E i \in alive : obj[i] = ZeroImage

Holders(objs, h) == {i \in alive : objs[i].img = h}
MemHolders(objs, m) == {i \in alive : objs[i].memory = m}

\* C6: B = move(A) releases the image and memory B held, each once, gives B
\* the handles, extent, format and subresource range of A and nulls the
\* handles of A; afterwards every handle an instance held before is released
\* or held by exactly one instance, also when A and B are the same instance.
C6_MoveAssign ==
    [][lastCall'.op = "move_assign" => \A dst \in Inst, src \in Inst :
         MoveAssign(dst, src) =>
            /\ \A h \in Handles :
                  /\ destroyCount'[h] = destroyCount[h] + (IF h = obj[dst].img THEN 1 ELSE 0)
                  /\ freeCount'[h] = freeCount[h] + (IF h = obj[dst].memory THEN 1 ELSE 0)
            /\ obj[dst].img # NullHandle => obj[dst].img \notin images'
            /\ obj[dst].memory # NullHandle => obj[dst].memory \notin memories'
            /\ dst # src =>
                  /\ obj'[dst] = [img |-> obj[src].img, memory |-> obj[src].memory,
                                  extent |-> obj[src].extent, format |-> obj[src].format,
                                  subresource_range |-> obj[src].subresource_range]
                  /\ obj'[src].img = NullHandle
                  /\ obj'[src].memory = NullHandle
            /\ \A h \in Handles :
                  /\ Holders(obj, h) # {} =>
                        \/ h \notin images' /\ Holders(obj', h) = {}
                        \/ h \in images' /\ Cardinality(Holders(obj', h)) = 1
                  /\ MemHolders(obj, h) # {} =>
                        \/ h \notin memories' /\ MemHolders(obj', h) = {}
                        \/ h \in memories' /\ Cardinality(MemHolders(obj', h)) = 1]_vars

\* B's handles were released, B holds A's, A is left with null handles
C6_Witness ==
    /\ lastCall.op = "move_assign"
    /\ \E a \in alive, b \in alive :
          /\ a # b
          /\ obj[b].img # NullHandle /\ obj[b].img \in images
          /\ obj[a].img = NullHandle /\ obj[a].extent.width # 0
          /\ \E h \in Handles : h # obj[b].img /\ destroyCount[h] = 1 /\ freeCount[h] = 1

\* C7: every instance has its image and memory handles both valid or both
\* null, and no native handle is held by two instances.
C7_PairedSingleOwner ==
    /\ \A i \in alive :
          \/ obj[i].img = NullHandle /\ obj[i].memory = NullHandle
          \/ obj[i].img \in images /\ obj[i].memory \in memories
    /\ \A i \in alive, j \in alive :
          i # j =>
             /\ obj[i].img # NullHandle => obj[i].img # obj[j].img
             /\ obj[i].memory # NullHandle => obj[i].memory # obj[j].memory

\* after a command on it, one instance holds valid handles beside a moved-from one
C7_Witness ==
    /\ lastCall.op = "copy_from_buffers"
    /\ \E a \in alive, b \in alive :
          /\ a # b
          /\ obj[b].img \in images /\ obj[b].memory \in memories
          /\ obj[a].img = NullHandle /\ obj[a].extent.width # 0
    /\ \E h \in Handles : destroyCount[h] = 1

\* C8: construction with layer_count = 0 fails the precondition check, also
\* when the depth is 0 too; with layer_count > 0 and depth = 0 it raises the
\* runtime error; either way no image was created and no memory allocated.
C8_ConstructRejects ==
    [][lastCall'.op = "construct" =>
         \A i \in Inst, x \in Extents, n \in 0..MaxLayers, a \in Aspects, f \in Formats,
            d \in DeviceOutcomes :
            ((n = 0 \/ x.depth = 0) /\ Construct(i, x, n, a, f, d)) =>
               /\ n = 0 => lastCall'.result = "assert"
               /\ (n > 0 /\ x.depth = 0) => lastCall'.result = "runtime_error"
               /\ (n = 0 \/ x.depth = 0) => UNCHANGED <<device, alive, obj>>]_vars

\* a construction was rejected while another image exists untouched
C8_Witness ==
    /\ lastCall.op = "construct"
    /\ lastCall.result = "assert"
    /\ nImages = 1 /\ images = {1}

CommandOps == {"transition_layout", "copy_from_buffer", "copy_all_from_buffer",
               "copy_from_buffers"}

\* C9: a transition or copy call that succeeds begins exactly one recording
\* and ends it last, so none is open once it has returned; a transition with
\* an unsupported pair begins no recording and records no barrier.
C9_OneRecordingPerCall ==
    /\ (lastCall.op \in CommandOps /\ lastCall.result = "ok") =>
          /\ CountEvt(lastCall.events, "begin") = 1
          /\ CountEvt(lastCall.events, "end") = 1
          /\ lastCall.events[1].e = "begin"
          /\ lastCall.events[Len(lastCall.events)].e = "end"
    /\ (lastCall.op = "transition_layout" /\ lastCall.result # "ok") =>
          lastCall.events = <<>>
    /\ ~halted => open = 0

\* two per-layer copies went into one recording, ended before the return
C9_Witness ==
    /\ lastCall.op = "copy_from_buffers"
    /\ lastCall.result = "ok"
    /\ Len(Copies(lastCall.events)) = 2
    /\ open = 0
    /\ obj[1].img # NullHandle

\* C10: a construction that fails after createImage leaves no native image and
\* no device memory allocated.
C10_FailedConstructReleases ==
    [][\A i \in Inst, x \in Extents, n \in 0..MaxLayers, a \in Aspects, f \in Formats,
          d \in DeviceOutcomes :
         (Construct(i, x, n, a, f, d) /\ lastCall'.result = "device_error") =>
            /\ images' = images
            /\ memories' = memories]_vars

====
